---- MODULE Spec2Model ----
(***************************************************************************)
(* Asset-version bookkeeping of the home renovation planner                *)
(* (tools.py): the session state kept in tool_context.state, the two       *)
(* rendering handlers generate_renovation_rendering and                    *)
(* edit_renovation_rendering, and their collaborators (image model,        *)
(* artifact service, working directory).                                   *)
(*                                                                         *)
(* Python strings are sequences of one-character strings, so that          *)
(* formatting (create_versioned_filename) and parsing (str.split) are      *)
(* computed and not assumed.  None and the empty string, which the code    *)
(* only ever tests for truthiness, are both the empty sequence.            *)
(***************************************************************************)
EXTENDS Integers, Sequences, FiniteSets, TLC

VARIABLES state, disk, result, call, req, report, retry, pipeline, ui

vars == <<state, disk, result, call, req, report, retry, pipeline, ui>>

----------------------------------------------------------------------------
(* Bounds *)

\* a session commits at most this many versions, all assets together
MaxCommits == 3
\* save_artifact returns a revision number in 0..MaxArtifactVersion
MaxArtifactVersion == 1
\* create_versioned_filename on its own is applied to versions 0..MaxVersion
MaxVersion == 11

----------------------------------------------------------------------------
(* Strings *)

None == << >>

Digits == <<"0", "1", "2", "3", "4", "5", "6", "7", "8", "9">>

\* str(n) for n >= 0
RECURSIVE IntToStr(_)
IntToStr(n) ==
    IF n < 10 THEN <<Digits[n + 1]>>
    ELSE IntToStr(n \div 10) \o <<Digits[(n % 10) + 1]>>

PNG == <<"p", "n", "g">>
JPG == <<"j", "p", "g">>
SEP_V == <<"_", "v">>

OccursAt(s, sub, i) ==
    /\ i + Len(sub) - 1 <= Len(s)
    /\ SubSeq(s, i, i + Len(sub) - 1) = sub

\* sub in s
Contains(s, sub) == \E i \in 1..Len(s) : OccursAt(s, sub, i)

\* s.split(sub)[0] when sub occurs in s: the part before the first occurrence
SplitHead(s, sub) ==
    LET i == CHOOSE k \in 1..Len(s) :
                 /\ OccursAt(s, sub, k)
                 /\ \A j \in 1..(k - 1) : ~OccursAt(s, sub, j)
    IN SubSeq(s, 1, i - 1)

KIT == <<"k", "i", "t">>
BATH_VANITY == <<"b", "_", "v", "a", "n">>
RENOVATION_RENDERING ==
    <<"r", "e", "n", "o", "v", "a", "t", "i", "o", "n", "_",
      "r", "e", "n", "d", "e", "r", "i", "n", "g">>
ROOM_JPG == <<"r", "o", "o", "m", ".", "j", "p", "g">>

\* asset names the model passes as inputs.asset_name
AssetNames == {KIT, BATH_VANITY}
\* files the user has put in the working directory before the session
UploadNames == {ROOM_JPG}
STYLE_JPG == <<"s", ".", "j", "p", "g">>
LATEST == <<"l", "a", "t", "e", "s", "t">>
UNKNOWN == <<"U", "n", "k", "n", "o", "w", "n">>

----------------------------------------------------------------------------
(* Dictionaries: functions whose DOMAIN is the set of keys present *)

EmptyDict == << >>

Get(d, k, default) == IF k \in DOMAIN d THEN d[k] ELSE default

Put(d, k, v) == [x \in (DOMAIN d) \cup {k} |-> IF x = k THEN v ELSE d[x]]

----------------------------------------------------------------------------
(* Helper functions for asset version management *)

\* slip: counts the history entries instead of reading the current version
get_next_version_number_FromHistoryLength(st, asset_name) ==
    Len(Get(st.history, asset_name, << >>)) + 1

get_next_version_number(st, asset_name) ==
    LET current_version == Get(st.asset_versions, asset_name, 0)
    IN current_version + 1

\* slip: the history is replaced by the new entry instead of extended
update_asset_version_OverwritesHistory(st, asset_name, version, filename) ==
    [st EXCEPT
        !.asset_versions = Put(@, asset_name, version),
        !.asset_filenames = Put(@, asset_name, filename),
        !.history = Put(@, asset_name,
                        <<[version |-> version, filename |-> filename]>>)]

update_asset_version(st, asset_name, version, filename) ==
    [st EXCEPT
        !.asset_versions = Put(@, asset_name, version),
        !.asset_filenames = Put(@, asset_name, filename),
        !.history = Put(@, asset_name,
                        Append(Get(@, asset_name, << >>),
                               [version |-> version, filename |-> filename]))]

\* slip: the dot before the extension is left out
create_versioned_filename_NoDot(asset_name, version, file_extension) ==
    asset_name \o SEP_V \o IntToStr(version) \o file_extension

create_versioned_filename(asset_name, version, file_extension) ==
    asset_name \o SEP_V \o IntToStr(version) \o <<".">> \o file_extension

----------------------------------------------------------------------------
(* Artifact service *)

\* the "no version" half of the (False, None) pair
NONE_VERSION == -1

\* what one call of tool_context.save_artifact can do
SaveOutcomes ==
    {[kind |-> "absent", version |-> NONE_VERSION],
     [kind |-> "raises", version |-> NONE_VERSION]}
    \cup {[kind |-> "ok", version |-> v] : v \in 0..MaxArtifactVersion}

\* (success, version)
save_artifact_safely(svc) ==
    IF svc.kind = "ok" THEN <<TRUE, svc.version>> ELSE <<FALSE, NONE_VERSION>>

\* Python truthiness of an optional int
Truthy(v) == v # NONE_VERSION /\ v # 0

\* slip: no os.path.exists check, a part is built for any name
load_image_from_file_NoExistsCheck(d, filename) == TRUE

\* load_image_from_file: the part read from the working directory, if any
load_image_from_file(d, filename) == filename \in d

\* tool_context.load_artifact first (artifact_part: it returned a part, not
\* None and not an exception), then load_image_from_file
LoadedImagePart(d, filename, artifact_part) ==
    artifact_part \/ load_image_from_file(d, filename)

DiskAfterWrite(d, filename, wrote) == IF wrote THEN d \cup {filename} ELSE d

ModelOutcomes == {"raises", "no_image", "image"}

\* before the handler's work starts: the API key is missing from the
\* environment, genai.Client() or the input conversion raises, or neither
Setups == {"no_key", "client_error", "ok"}

----------------------------------------------------------------------------
(* State *)

InitState ==
    [asset_versions |-> EmptyDict,
     asset_filenames |-> EmptyDict,
     history |-> EmptyDict,
     last_generated_rendering |-> None,
     current_asset_name |-> None,
     uploaded_images |-> EmptyDict,
     current_room_artifact |-> None,
     inspiration_artifact |-> None,
     reference_images |-> EmptyDict,
     latest_reference_image |-> None]

NoResult == [kind |-> "none", asset |-> None, version |-> 0, filename |-> None]

\* the inputs and collaborator outcomes of the most recent call
NoCall ==
    [op |-> "none", setup |-> "none", artifact_filename |-> None,
     artifact_part |-> FALSE, model |-> "none", svc |-> "none",
     named |-> None, reference |-> None, asset_name |-> None]

\* what the most recent query of the session state (a listing tool or a
\* helper called on its own) returned
NoReport == [kind |-> "none"]

\* the frontend's retry loop before a message has been sent
IdleRetry ==
    [pc |-> "idle", attempt |-> 0, runs |-> 0, errors |-> << >>,
     waits |-> << >>, error_occurred |-> FALSE, shown |-> "none",
     final_response |-> None]

\* the planning pipeline before it has been entered
IdlePipeline == [pc |-> "idle", stage |-> 0, log |-> << >>]

Procs == {1, 2}

\* a request of the concurrent session: where it is (idle, saving: suspended
\* in the awaited save_artifact, done), its local variables, and what it did
IdleReq ==
    [pc |-> "idle", op |-> "none", asset |-> None, version |-> 0,
     filename |-> None, fresh |-> FALSE, overlapped |-> FALSE,
     committed |-> 0]

\* st.session_state of the frontend, with the uploader widget's files and
\* the select boxes' values; mtime lists the files of the working directory
\* from the least to the most recently modified, old holds those modified
\* more than five minutes ago, written_by tells who wrote each file last,
\* run_wrote the files the tools wrote during the last agent run, found_by
\* the detection method that chose last_generated_image in that run, and
\* removed the images the user removed and did not upload again
InitUI ==
    [uploaded_images |-> << >>,
     image_categories |-> EmptyDict,
     selectbox |-> EmptyDict,
     uploader |-> << >>,
     last_generated_image |-> None,
     last_generated_filename |-> None,
     attach_uploaded_images |-> TRUE,
     attach_last_rendering |-> FALSE,
     mtime |-> << >>,
     old |-> {},
     written_by |-> EmptyDict,
     run_wrote |-> {},
     found_by |-> "none",
     removed |-> {}]

Init ==
    /\ state = InitState
    /\ disk \in SUBSET UploadNames
    /\ result = NoResult
    /\ call = NoCall
    /\ req = [p \in Procs |-> IdleReq]
    /\ report = NoReport
    /\ retry = IdleRetry
    /\ pipeline = IdlePipeline
    /\ ui = InitUI

History(st, asset_name) == Get(st.history, asset_name, << >>)

----------------------------------------------------------------------------
(* Reading the session state: listings and the reference images *)

\* slip: the read registers the asset (setdefault instead of get)
get_next_version_number_StateAfter_Registers(st, asset_name) ==
    [st EXCEPT !.asset_versions =
                   Put(@, asset_name, Get(@, asset_name, 0))]

\* the session state after get_next_version_number: both reads are
\* dict.get with a default, nothing is stored
get_next_version_number_StateAfter(st, asset_name) == st

\* one line of the listing per key of asset_versions
get_asset_versions_info(st) ==
    IF st.asset_versions = EmptyDict
    THEN [kind |-> "no_renderings"]
    ELSE [kind |-> "renderings",
          lines |-> [asset_name \in DOMAIN st.asset_versions |->
                        [total_versions |-> Len(History(st, asset_name)),
                         current_version |-> st.asset_versions[asset_name],
                         latest_filename |->
                             Get(st.asset_filenames, asset_name, UNKNOWN)]]]

\* one line of the listing per key of reference_images
get_reference_images_info(st) ==
    IF st.reference_images = EmptyDict
    THEN [kind |-> "no_reference_images"]
    ELSE [kind |-> "reference_images",
          lines |-> [filename \in DOMAIN st.reference_images |->
                        st.reference_images[filename].type]]

get_latest_reference_image_filename(st) == st.latest_reference_image

\* the file a call looks for when it names a reference image: 'latest' is
\* looked up in the session state, any other name is taken as it is, and
\* no name or a failed lookup gives no reference image
ReferenceFilename(st, named) ==
    IF named = None THEN None
    ELSE IF named = LATEST THEN get_latest_reference_image_filename(st)
    ELSE named

ImageTypes == {"current_room", "inspiration"}

\* the session state save_uploaded_image_as_artifact leaves
save_uploaded_image_as_artifact(st, artifact_name, image_type) ==
    [st EXCEPT
        !.uploaded_images =
            Put(@, artifact_name,
                [type |-> image_type, filename |-> artifact_name]),
        !.current_room_artifact =
            IF image_type = "current_room" THEN artifact_name ELSE @,
        !.inspiration_artifact =
            IF image_type = "inspiration" THEN artifact_name ELSE @]

\* the message save_uploaded_image_as_artifact returns
SaveUploadedImageMessage(artifact_name, image_type, svc) ==
    [kind |-> IF save_artifact_safely(svc)[1]
              THEN "image_saved" ELSE "image_reference_saved",
     artifact_name |-> artifact_name, image_type |-> image_type]

RECURSIVE SumLen(_, _)
SumLen(h, keys) ==
    IF keys = {} THEN 0
    ELSE LET k == CHOOSE x \in keys : TRUE
         IN Len(h[k]) + SumLen(h, keys \ {k})

TotalCommits(st) == SumLen(st.history, DOMAIN st.history)

----------------------------------------------------------------------------
(* generate_renovation_rendering *)

\* the state writes made when the image chunk arrives, before the save is awaited
GenerateBeforeSave(st, asset_name, artifact_filename) ==
    [st EXCEPT !.last_generated_rendering = artifact_filename,
               !.current_asset_name = asset_name]

\* slip: the artifact version is recorded even when the save failed
GenerateCommitVersion_AlwaysArtifactVersion(version, svc) ==
    save_artifact_safely(svc)[2]

\* the version recorded once save_artifact_safely has returned
GenerateCommitVersion(version, svc) ==
    LET saved == save_artifact_safely(svc)
    IN IF saved[1] /\ Truthy(saved[2]) THEN saved[2] ELSE version

GenerateAfterSave(st, asset_name, version, artifact_filename, svc) ==
    update_asset_version(st, asset_name, GenerateCommitVersion(version, svc),
                         artifact_filename)

\* slip: the version is committed before the stream has produced an image
GenerateState_CommitsBeforeStream(st, asset_name, model, svc) ==
    LET version == get_next_version_number(st, asset_name)
        artifact_filename == create_versioned_filename(asset_name, version, PNG)
    IN GenerateAfterSave(
           GenerateBeforeSave(st, asset_name, artifact_filename),
           asset_name, version, artifact_filename, svc)

\* the session state a call leaves, by what the image model did
GenerateState(st, asset_name, model, svc) ==
    LET version0 == get_next_version_number(st, asset_name)
        artifact_filename == create_versioned_filename(asset_name, version0, PNG)
        version == get_next_version_number(st, asset_name)
    IN IF model = "image"
       THEN GenerateAfterSave(
                GenerateBeforeSave(st, asset_name, artifact_filename),
                asset_name, version, artifact_filename, svc)
       ELSE st

\* slip: an exception of the image model leaves the handler
GenerateResult_ModelErrorPropagates(st, asset_name, setup, model) ==
    LET version == get_next_version_number(st, asset_name)
    IN IF setup = "no_key" \/ model = "raises"
       THEN [NoResult EXCEPT !.kind = "raised"]
       ELSE IF setup = "client_error"
       THEN [NoResult EXCEPT !.kind = "error"]
       ELSE IF model = "no_image"
       THEN [NoResult EXCEPT !.kind = "no_rendering"]
       ELSE [kind |-> "generated", asset |-> asset_name, version |-> version,
             filename |-> create_versioned_filename(asset_name, version, PNG)]

\* the returned message
GenerateResult(st, asset_name, setup, model) ==
    LET version == get_next_version_number(st, asset_name)
    IN IF setup = "no_key" THEN [NoResult EXCEPT !.kind = "raised"]
       ELSE IF setup = "client_error" \/ model = "raises"
       THEN [NoResult EXCEPT !.kind = "error"]
       ELSE IF model = "no_image"
       THEN [NoResult EXCEPT !.kind = "no_rendering"]
       ELSE [kind |-> "generated", asset |-> asset_name, version |-> version,
             filename |-> create_versioned_filename(asset_name, version, PNG)]

\* one whole call, nothing else running in the session
Generate(setup, asset_name, inspiration_image, model, wrote, svc) ==
    LET artifact_filename ==
            create_versioned_filename(
                asset_name, get_next_version_number(state, asset_name), PNG)
    IN
    /\ TotalCommits(state) < MaxCommits
    /\ UNCHANGED <<req, report, retry, pipeline, ui>>
    /\ call' = [op |-> "generate", setup |-> setup,
                artifact_filename |-> None, artifact_part |-> FALSE,
                model |-> model, svc |-> svc.kind,
                asset_name |-> asset_name,
                named |-> inspiration_image,
                reference |-> IF setup = "ok"
                              THEN ReferenceFilename(state, inspiration_image)
                              ELSE None]
    /\ state' = IF setup = "ok"
                THEN GenerateState(state, asset_name, model, svc) ELSE state
    /\ disk' = IF setup = "ok" /\ model = "image"
               THEN DiskAfterWrite(disk, artifact_filename, wrote) ELSE disk
    /\ result' = GenerateResult(state, asset_name, setup, model)

----------------------------------------------------------------------------
(* edit_renovation_rendering *)

\* slip: the session's current asset is preferred to the asset_name input
EditAssetName_CurrentFirst(st, input_asset_name, artifact_filename) ==
    IF st.current_asset_name # None THEN st.current_asset_name
    ELSE IF input_asset_name # None THEN input_asset_name
    ELSE IF Contains(artifact_filename, SEP_V)
         THEN SplitHead(artifact_filename, SEP_V)
         ELSE RENOVATION_RENDERING

\* the asset that receives the new version
EditAssetName(st, input_asset_name, artifact_filename) ==
    IF input_asset_name # None THEN input_asset_name
    ELSE IF st.current_asset_name # None THEN st.current_asset_name
    ELSE IF Contains(artifact_filename, SEP_V)
         THEN SplitHead(artifact_filename, SEP_V)
         ELSE RENOVATION_RENDERING

\* version tracking and session state written when the image chunk arrives
EditCommit(st, asset_name, edited_artifact_filename) ==
    LET version == get_next_version_number(st, asset_name)
        st1 == update_asset_version(st, asset_name, version,
                                    edited_artifact_filename)
    IN [st1 EXCEPT !.last_generated_rendering = edited_artifact_filename,
                   !.current_asset_name = asset_name]

\* the session state a call leaves, by what was loaded and what the image
\* model did
EditState(st, d, artifact_filename, input_asset_name, artifact_part, model) ==
    LET asset_name == EditAssetName(st, input_asset_name, artifact_filename)
        version0 == get_next_version_number(st, asset_name)
        edited_artifact_filename ==
            create_versioned_filename(asset_name, version0, PNG)
    IN IF LoadedImagePart(d, artifact_filename, artifact_part)
          /\ model = "image"
       THEN EditCommit(st, asset_name, edited_artifact_filename)
       ELSE st

\* the returned message
EditResult(st, d, artifact_filename, input_asset_name, artifact_part, setup, model) ==
    LET asset_name == EditAssetName(st, input_asset_name, artifact_filename)
        version0 == get_next_version_number(st, asset_name)
        version == get_next_version_number(st, asset_name)
    IN IF setup = "no_key" THEN [NoResult EXCEPT !.kind = "raised"]
       ELSE IF setup = "client_error" THEN [NoResult EXCEPT !.kind = "error"]
       ELSE IF ~LoadedImagePart(d, artifact_filename, artifact_part)
       THEN [NoResult EXCEPT !.kind = "could_not_find"]
       ELSE IF model = "raises" THEN [NoResult EXCEPT !.kind = "error"]
       ELSE IF model = "no_image"
       THEN [NoResult EXCEPT !.kind = "no_edited_rendering"]
       ELSE [kind |-> "edited", asset |-> asset_name, version |-> version,
             filename |-> create_versioned_filename(asset_name, version0, PNG)]

\* one whole call, nothing else running in the session
Edit(setup, artifact_filename, input_asset_name, reference_image_filename, artifact_part, model, wrote, svc) ==
    LET asset_name == EditAssetName(state, input_asset_name, artifact_filename)
        edited_artifact_filename ==
            create_versioned_filename(
                asset_name, get_next_version_number(state, asset_name), PNG)
    IN
    /\ TotalCommits(state) < MaxCommits
    /\ UNCHANGED <<req, report, retry, pipeline, ui>>
    /\ call' = [op |-> "edit", setup |-> setup,
                artifact_filename |-> artifact_filename,
                artifact_part |-> artifact_part,
                model |-> model, svc |-> svc.kind,
                asset_name |-> input_asset_name,
                named |-> reference_image_filename,
                reference |->
                    IF /\ setup = "ok"
                       /\ LoadedImagePart(disk, artifact_filename,
                                          artifact_part)
                    THEN ReferenceFilename(state, reference_image_filename)
                    ELSE None]
    /\ state' = IF setup = "ok"
                THEN EditState(state, disk, artifact_filename,
                               input_asset_name, artifact_part, model)
                ELSE state
    /\ disk' = IF /\ setup = "ok"
                  /\ LoadedImagePart(disk, artifact_filename, artifact_part)
                  /\ model = "image"
               THEN DiskAfterWrite(disk, edited_artifact_filename, wrote)
               ELSE disk
    /\ result' = EditResult(state, disk, artifact_filename, input_asset_name,
                            artifact_part, setup, model)

----------------------------------------------------------------------------
(* The session, one call at a time *)

\* filenames the model passes as inputs.artifact_filename
EditFilenames ==
    UploadNames \cup {create_versioned_filename(BATH_VANITY, 1, PNG)}

\* the collaborators a call does not reach have no outcome
NotCalled == [kind |-> "none", version |-> NONE_VERSION]

ModelOutcomesIf(reached) == IF reached THEN ModelOutcomes ELSE {"none"}
WriteOutcomesIf(reached) == IF reached THEN BOOLEAN ELSE {FALSE}
SaveOutcomesIf(reached) == IF reached THEN SaveOutcomes ELSE {NotCalled}

\* edit_renovation_rendering only logs the revision number save_artifact
\* returns, so one revision number stands for all
EditSaveOutcomes == {svc \in SaveOutcomes : svc.version <= 0}
EditSaveOutcomesIf(reached) == IF reached THEN EditSaveOutcomes ELSE {NotCalled}

GenerateCall ==
    \E setup \in Setups, asset_name \in AssetNames :
      \E model \in ModelOutcomesIf(setup = "ok") :
        \E wrote \in WriteOutcomesIf(model = "image"),
           svc \in SaveOutcomesIf(model = "image") :
            Generate(setup, asset_name, None, model, wrote, svc)

EditCall ==
    \E setup \in Setups, artifact_filename \in EditFilenames,
       input_asset_name \in AssetNames \cup {None} :
      \E artifact_part \in WriteOutcomesIf(setup = "ok") :
        \E model \in ModelOutcomesIf(setup = "ok"
                                     /\ LoadedImagePart(disk, artifact_filename,
                                                        artifact_part)) :
          \E wrote \in WriteOutcomesIf(model = "image"),
             svc \in EditSaveOutcomesIf(model = "image") :
              Edit(setup, artifact_filename, input_asset_name, None,
                   artifact_part, model, wrote, svc)

Next == GenerateCall \/ EditCall

Spec == Init /\ [][Next]_vars

----------------------------------------------------------------------------
(* The session with two requests in flight.  The handlers are coroutines   *)
(* on one event loop: a request runs alone until it awaits.  The model     *)
(* call is a synchronous iteration (for chunk in ...generate_content_      *)
(* stream), so the only await after the version has been read is the one   *)
(* on tool_context.save_artifact inside save_artifact_safely; without a    *)
(* save_artifact attribute nothing is awaited and the call runs through.   *)
(* The awaits on load_artifact come before any read of the session state   *)
(* and files are never removed by the handlers, so the loads are taken     *)
(* together with the step that follows them.                               *)

InFlight(p) == req[p].pc = "saving"

Other(p) == CHOOSE q \in Procs : q # p

\* the asset had no version when the earlier of the overlapping requests began
FreshFor(p, asset_name) ==
    \/ History(state, asset_name) = << >>
    \/ InFlight(Other(p)) /\ req[Other(p)].asset = asset_name
                          /\ req[Other(p)].fresh

Started(p, op, asset_name, version, filename, suspended, committed) ==
    [q \in Procs |->
        IF q = p
        THEN [pc |-> IF suspended THEN "saving" ELSE "done", op |-> op,
              asset |-> asset_name, version |-> version,
              filename |-> filename, fresh |-> FreshFor(p, asset_name),
              overlapped |-> InFlight(Other(p)), committed |-> committed]
        ELSE [req[q] EXCEPT !.overlapped = @ \/ InFlight(q)]]

Failed(p, op) ==
    [req EXCEPT ![p] = [IdleReq EXCEPT !.pc = "done", !.op = op]]

\* from the start of the call to the await on save_artifact (or to the end)
GenerateBegin(p, setup, asset_name, model, wrote, svc) ==
    LET version0 == get_next_version_number(state, asset_name)
        artifact_filename == create_versioned_filename(asset_name, version0, PNG)
        version == get_next_version_number(state, asset_name)
        st1 == GenerateBeforeSave(state, asset_name, artifact_filename)
    IN
    /\ req[p].pc = "idle"
    /\ UNCHANGED <<report, retry, pipeline, ui>>
    /\ call' = [op |-> "generate", setup |-> setup,
                artifact_filename |-> None, artifact_part |-> FALSE,
                model |-> model, svc |-> svc.kind,
                named |-> None, reference |-> None,
                asset_name |-> asset_name]
    /\ IF setup = "no_key"
       THEN /\ result' = [NoResult EXCEPT !.kind = "raised"]
            /\ req' = Failed(p, "generate")
            /\ UNCHANGED <<state, disk>>
       ELSE IF setup = "client_error" \/ model = "raises"
       THEN /\ result' = [NoResult EXCEPT !.kind = "error"]
            /\ req' = Failed(p, "generate")
            /\ UNCHANGED <<state, disk>>
       ELSE IF model = "no_image"
       THEN /\ result' = [NoResult EXCEPT !.kind = "no_rendering"]
            /\ req' = Failed(p, "generate")
            /\ UNCHANGED <<state, disk>>
       ELSE /\ disk' = DiskAfterWrite(disk, artifact_filename, wrote)
            /\ IF svc.kind = "absent"
               THEN /\ state' = GenerateAfterSave(st1, asset_name, version,
                                                  artifact_filename, svc)
                    /\ req' = Started(p, "generate", asset_name, version,
                                      artifact_filename, FALSE,
                                      GenerateCommitVersion(version, svc))
                    /\ result' = [kind |-> "generated", asset |-> asset_name,
                                  version |-> version,
                                  filename |-> artifact_filename]
               ELSE /\ state' = st1
                    /\ req' = Started(p, "generate", asset_name, version,
                                      artifact_filename, TRUE, 0)
                    /\ UNCHANGED result

\* save_artifact has returned or raised: the rest of the call
GenerateResume(p, svc) ==
    /\ req[p].pc = "saving"
    /\ req[p].op = "generate"
    /\ state' = GenerateAfterSave(state, req[p].asset, req[p].version,
                                  req[p].filename, svc)
    /\ req' = [req EXCEPT ![p].pc = "done",
                          ![p].committed =
                              GenerateCommitVersion(req[p].version, svc)]
    /\ result' = [kind |-> "generated", asset |-> req[p].asset,
                  version |-> req[p].version, filename |-> req[p].filename]
    /\ UNCHANGED <<disk, call, report, retry, pipeline, ui>>

EditBegin(p, setup, artifact_filename, input_asset_name, artifact_part, model, wrote, svc) ==
    LET loaded == LoadedImagePart(disk, artifact_filename, artifact_part)
        asset_name == EditAssetName(state, input_asset_name, artifact_filename)
        version0 == get_next_version_number(state, asset_name)
        edited_artifact_filename ==
            create_versioned_filename(asset_name, version0, PNG)
        version == get_next_version_number(state, asset_name)
    IN
    /\ req[p].pc = "idle"
    /\ UNCHANGED <<report, retry, pipeline, ui>>
    /\ call' = [op |-> "edit", setup |-> setup,
                artifact_filename |-> artifact_filename,
                artifact_part |-> artifact_part,
                model |-> model, svc |-> svc.kind,
                named |-> None, reference |-> None,
                asset_name |-> input_asset_name]
    /\ IF setup = "no_key"
       THEN /\ result' = [NoResult EXCEPT !.kind = "raised"]
            /\ req' = Failed(p, "edit")
            /\ UNCHANGED <<state, disk>>
       ELSE IF setup = "client_error"
       THEN /\ result' = [NoResult EXCEPT !.kind = "error"]
            /\ req' = Failed(p, "edit")
            /\ UNCHANGED <<state, disk>>
       ELSE IF ~loaded
       THEN /\ result' = [NoResult EXCEPT !.kind = "could_not_find"]
            /\ req' = Failed(p, "edit")
            /\ UNCHANGED <<state, disk>>
       ELSE IF model = "raises"
       THEN /\ result' = [NoResult EXCEPT !.kind = "error"]
            /\ req' = Failed(p, "edit")
            /\ UNCHANGED <<state, disk>>
       ELSE IF model = "no_image"
       THEN /\ result' = [NoResult EXCEPT !.kind = "no_edited_rendering"]
            /\ req' = Failed(p, "edit")
            /\ UNCHANGED <<state, disk>>
       ELSE /\ disk' = DiskAfterWrite(disk, edited_artifact_filename, wrote)
            /\ state' = EditCommit(state, asset_name, edited_artifact_filename)
            /\ req' = Started(p, "edit", asset_name, version,
                              edited_artifact_filename, svc.kind # "absent",
                              version)
            /\ IF svc.kind = "absent"
               THEN result' = [kind |-> "edited", asset |-> asset_name,
                               version |-> version,
                               filename |-> edited_artifact_filename]
               ELSE UNCHANGED result

EditResume(p) ==
    /\ req[p].pc = "saving"
    /\ req[p].op = "edit"
    /\ req' = [req EXCEPT ![p].pc = "done"]
    /\ result' = [kind |-> "edited", asset |-> req[p].asset,
                  version |-> req[p].version, filename |-> req[p].filename]
    /\ UNCHANGED <<state, disk, call, report, retry, pipeline, ui>>

\* the request is cancelled while it waits for save_artifact: the
\* CancelledError raised at the await is no Exception, so neither
\* save_artifact_safely nor the handler catches it, and the rest of the
\* call never runs
Abandon(p) ==
    /\ req[p].pc = "saving"
    /\ req' = [req EXCEPT ![p].pc = "done"]
    /\ result' = [NoResult EXCEPT !.kind = "cancelled"]
    /\ UNCHANGED <<state, disk, call, report, retry, pipeline, ui>>

\* what an awaited save_artifact can do when it resumes the request
AwaitedSaveOutcomes == {svc \in SaveOutcomes : svc.kind # "absent"}

\* at the await the request only knows whether the attribute exists
SaveAtBeginIf(reached) ==
    IF reached
    THEN {[kind |-> "absent", version |-> NONE_VERSION],
          [kind |-> "awaited", version |-> NONE_VERSION]}
    ELSE {NotCalled}

GenerateBeginCall ==
    \E p \in Procs, setup \in Setups, asset_name \in AssetNames :
      \E model \in ModelOutcomesIf(setup = "ok") :
        \E wrote \in WriteOutcomesIf(model = "image"),
           svc \in SaveAtBeginIf(model = "image") :
            GenerateBegin(p, setup, asset_name, model, wrote, svc)

GenerateResumeCall ==
    \E p \in Procs, svc \in AwaitedSaveOutcomes : GenerateResume(p, svc)

EditBeginCall ==
    \E p \in Procs, setup \in Setups, artifact_filename \in EditFilenames,
       input_asset_name \in AssetNames \cup {None} :
      \E artifact_part \in WriteOutcomesIf(setup = "ok") :
        \E model \in ModelOutcomesIf(setup = "ok"
                                     /\ LoadedImagePart(disk, artifact_filename,
                                                        artifact_part)) :
          \E wrote \in WriteOutcomesIf(model = "image"),
             svc \in SaveAtBeginIf(model = "image") :
              EditBegin(p, setup, artifact_filename, input_asset_name,
                        artifact_part, model, wrote, svc)

EditResumeCall == \E p \in Procs : EditResume(p)

AbandonCall == \E p \in Procs : Abandon(p)

NextConc ==
    \/ GenerateBeginCall
    \/ GenerateResumeCall
    \/ EditBeginCall
    \/ EditResumeCall
    \/ AbandonCall

SpecConc == Init /\ [][NextConc]_vars

----------------------------------------------------------------------------
(* The tools called one after the other in a session where every           *)
(* rendering call succeeds: the two handlers, the two listing tools,       *)
(* save_uploaded_image_as_artifact and get_next_version_number on its own. *)

GetNextVersionNumber(asset_name) ==
    /\ call' = [NoCall EXCEPT !.op = "get_next_version_number"]
    /\ report' = [kind |-> "next_version", asset |-> asset_name,
                  value |-> get_next_version_number(state, asset_name)]
    /\ state' = get_next_version_number_StateAfter(state, asset_name)
    /\ UNCHANGED <<disk, result, req, retry, pipeline, ui>>

list_renovation_renderings ==
    /\ call' = [NoCall EXCEPT !.op = "list_renovation_renderings"]
    /\ report' = get_asset_versions_info(state)
    /\ UNCHANGED <<state, disk, result, req, retry, pipeline, ui>>

list_reference_images ==
    /\ call' = [NoCall EXCEPT !.op = "list_reference_images"]
    /\ report' = get_reference_images_info(state)
    /\ UNCHANGED <<state, disk, result, req, retry, pipeline, ui>>

SaveUploadedImage(artifact_name, image_type, svc) ==
    /\ call' = [NoCall EXCEPT !.op = "save_uploaded_image_as_artifact",
                              !.svc = svc.kind]
    /\ state' = save_uploaded_image_as_artifact(state, artifact_name,
                                                image_type)
    /\ report' = SaveUploadedImageMessage(artifact_name, image_type, svc)
    /\ UNCHANGED <<disk, result, req, retry, pipeline, ui>>

ReferenceNames == {ROOM_JPG, STYLE_JPG}

\* the artifact service of the session: missing, or storing every image as
\* the first revision of its filename
ToolsSaveOutcomes ==
    {svc \in SaveOutcomes : svc.kind = "absent" \/ svc.version = 1}

ToolsGenerateCall ==
    \E asset_name \in AssetNames, inspiration_image \in {None, LATEST},
       svc \in ToolsSaveOutcomes :
        Generate("ok", asset_name, inspiration_image, "image", TRUE, svc)

ToolsEditCall ==
    \E artifact_filename \in EditFilenames,
       reference_image_filename \in {None, LATEST} :
        Edit("ok", artifact_filename, None, reference_image_filename, TRUE,
             "image", TRUE, [kind |-> "absent", version |-> NONE_VERSION])

GetNextVersionNumberCall ==
    \E asset_name \in AssetNames : GetNextVersionNumber(asset_name)

SaveUploadedImageCall ==
    \E artifact_name \in ReferenceNames, image_type \in ImageTypes,
       svc \in ToolsSaveOutcomes :
        SaveUploadedImage(artifact_name, image_type, svc)

NextTools ==
    \/ ToolsGenerateCall
    \/ ToolsEditCall
    \/ GetNextVersionNumberCall
    \/ list_renovation_renderings
    \/ list_reference_images
    \/ SaveUploadedImageCall

SpecTools == Init /\ [][NextTools]_vars

----------------------------------------------------------------------------
(* The frontend's execution of one chat message (frontend.py): the agent   *)
(* run inside the retry loop.  The run either returns the response text    *)
(* or raises; the loop sees only str(e) of what was raised.                *)

MAX_RETRIES == 3
RETRY_DELAY == 5

UpperCase == <<"A", "B", "C", "D", "E", "F", "G", "H", "I", "J", "K", "L", "M", "N", "O", "P", "Q", "R", "S", "T", "U", "V", "W", "X", "Y", "Z">>
LowerCase == <<"a", "b", "c", "d", "e", "f", "g", "h", "i", "j", "k", "l", "m", "n", "o", "p", "q", "r", "s", "t", "u", "v", "w", "x", "y", "z">>

\* str.lower on the letters of the alphabet
Lower(s) ==
    [i \in 1..Len(s) |->
        IF \E k \in 1..Len(UpperCase) : UpperCase[k] = s[i]
        THEN LowerCase[CHOOSE k \in 1..Len(UpperCase) : UpperCase[k] = s[i]]
        ELSE s[i]]

STR_503 == <<"5", "0", "3">>
STR_OVERLOADED == <<"o", "v", "e", "r", "l", "o", "a", "d", "e", "d">>

ERR_UNAVAILABLE == <<"5", "0", "3", " ", "U", "N", "A", "V", "A", "I", "L", "A", "B", "L", "E">>
ERR_OVERLOADED == <<"M", "o", "d", "e", "l", " ", "i", "s", " ", "O", "v", "e", "r", "l", "o", "a", "d", "e", "d">>
ERR_BUSY == <<"m", "o", "d", "e", "l", " ", "o", "v", "e", "r", "l", "o", "a", "d", "e", "d">>
ERR_RATE_LIMIT == <<"4", "2", "9", " ", "R", "E", "S", "O", "U", "R", "C", "E", "_", "E", "X", "H", "A", "U", "S", "T", "E", "D">>
ERR_NO_API_KEY == <<"A", "P", "I", "_", "K", "E", "Y", " ", "n", "o", "t", " ", "s", "e", "t">>
ERR_OTHER == <<"b", "o", "o", "m">>
RESPONSE_TEXT == <<"d", "o", "n", "e">>

\* str(e) of what the agent run can raise
ErrorTexts ==
    {STR_503, ERR_UNAVAILABLE, ERR_OVERLOADED, ERR_BUSY, ERR_RATE_LIMIT,
     ERR_NO_API_KEY, ERR_OTHER}

\* what one run of the agent conversation does
RunOutcomes ==
    {[kind |-> "returns", text |-> t] : t \in {None, RESPONSE_TEXT}}
    \cup {[kind |-> "raises", text |-> e] : e \in ErrorTexts}

\* the test that decides whether a failed attempt is tried again
IsOverloaded(error_str) ==
    Contains(error_str, STR_503) \/ Contains(Lower(error_str), STR_OVERLOADED)

\* slip: the same delay before every retry
wait_time_Constant(attempt) == RETRY_DELAY

\* seconds slept after the failed attempt number attempt (from 0)
wait_time(attempt) == RETRY_DELAY * (attempt + 1)

\* a chat message arrives: the script runs again with fresh locals
SendMessage ==
    /\ retry.pc \in {"idle", "done"}
    /\ retry' = [IdleRetry EXCEPT !.pc = "loop"]
    /\ UNCHANGED <<state, disk, result, call, req, report, pipeline, ui>>

\* one iteration of for attempt in range(MAX_RETRIES), with what follows
\* it when the loop is left
Attempt(outcome) ==
    LET attempt == retry.attempt
        ran == [retry EXCEPT !.runs = @ + 1]
        failed == [ran EXCEPT !.errors = Append(@, outcome.text)]
    IN
    /\ retry.pc = "loop"
    /\ retry' =
          IF outcome.kind = "returns"
          THEN [ran EXCEPT !.final_response = outcome.text,
                           !.error_occurred = FALSE,
                           !.pc = "done"]
          ELSE IF IsOverloaded(outcome.text)
          THEN IF attempt < MAX_RETRIES - 1
               THEN [failed EXCEPT !.waits = Append(@, wait_time(attempt)),
                                   !.attempt = attempt + 1]
               ELSE [failed EXCEPT !.shown = "overloaded",
                                   !.error_occurred = TRUE,
                                   !.pc = "done"]
          ELSE [failed EXCEPT !.shown = "error",
                              !.error_occurred = TRUE,
                              !.pc = "done"]
    /\ UNCHANGED <<state, disk, result, call, req, report, pipeline, ui>>

AttemptCall == \E outcome \in RunOutcomes : Attempt(outcome)

NextRetry == SendMessage \/ AttemptCall

SpecRetry == Init /\ [][NextRetry]_vars

----------------------------------------------------------------------------
(* The planning pipeline (agent.py): a SequentialAgent over three          *)
(* sub-agents.  A SequentialAgent runs the agents of its sub_agents list   *)
(* one after the other, each to the end of its event stream, and is left   *)
(* by the exception of a sub-agent that raises.                            *)

\* slip: the design planner is listed before the visual assessor
planning_pipeline_DesignFirst ==
    <<"DesignPlanner", "VisualAssessor", "ProjectCoordinator">>

\* sub_agents of planning_pipeline, in the order of the list
planning_pipeline ==
    <<"VisualAssessor", "DesignPlanner", "ProjectCoordinator">>

\* what a sub-agent's run produced: its final text, and whether it called
\* one of its tools on the way
StageOutcomes == [text : {None, RESPONSE_TEXT}, tool_called : BOOLEAN]

StartEvent(i) == [ev |-> "start", agent |-> planning_pipeline[i]]

\* the root agent transfers a request to PlanningPipeline
EnterPipeline ==
    /\ pipeline.pc # "running"
    /\ pipeline' = [pc |-> "running", stage |-> 1, log |-> <<StartEvent(1)>>]
    /\ UNCHANGED <<state, disk, result, call, req, report, retry, ui>>

\* the running sub-agent finishes; the next of the list, if any, starts
StageCompletes(outcome) ==
    LET i == pipeline.stage
        done == Append(pipeline.log,
                       [ev |-> "end", agent |-> planning_pipeline[i],
                        outcome |-> outcome])
    IN
    /\ pipeline.pc = "running"
    /\ pipeline' =
          IF i < Len(planning_pipeline)
          THEN [pc |-> "running", stage |-> i + 1,
                log |-> Append(done, StartEvent(i + 1))]
          ELSE [pc |-> "completed", stage |-> i, log |-> done]
    /\ UNCHANGED <<state, disk, result, call, req, report, retry, ui>>

\* the running sub-agent raises; the pipeline is left
StageRaises ==
    /\ pipeline.pc = "running"
    /\ pipeline' =
          [pipeline EXCEPT
              !.pc = "failed",
              !.log = Append(@, [ev |-> "raised",
                                 agent |-> planning_pipeline[pipeline.stage]])]
    /\ UNCHANGED <<state, disk, result, call, req, report, retry, ui>>

StageCompletesCall == \E outcome \in StageOutcomes : StageCompletes(outcome)

NextPipeline == EnterPipeline \/ StageCompletesCall \/ StageRaises

SpecPipeline == Init /\ [][NextPipeline]_vars

----------------------------------------------------------------------------
(* create_versioned_filename called on its own, in a session that has no   *)
(* rendering yet or has one.                                               *)

\* the session after one successful generate_renovation_rendering of 'kit'
\* without an artifact service
OneRenderingState ==
    GenerateState(InitState, KIT, "image",
                  [kind |-> "absent", version |-> NONE_VERSION])

InitFilename ==
    /\ state \in {InitState, OneRenderingState}
    /\ disk \in SUBSET UploadNames
    /\ result = NoResult
    /\ call = NoCall
    /\ req = [p \in Procs |-> IdleReq]
    /\ report = NoReport
    /\ retry = IdleRetry
    /\ pipeline = IdlePipeline
    /\ ui = InitUI

\* file_extension is 'png' when the caller leaves it out
CreateVersionedFilename(asset_name, version, file_extension, given) ==
    /\ call' = [NoCall EXCEPT !.op = "create_versioned_filename"]
    /\ report' =
          [kind |-> "filename", asset_name |-> asset_name,
           version |-> version,
           file_extension |-> IF given THEN file_extension ELSE None,
           value |-> create_versioned_filename(
                         asset_name, version,
                         IF given THEN file_extension ELSE PNG)]
    /\ UNCHANGED <<state, disk, result, req, retry, pipeline, ui>>

FilenameAssetNames == AssetNames \cup {RENOVATION_RENDERING}

NextFilename ==
    \E asset_name \in FilenameAssetNames, version \in 0..MaxVersion,
       file_extension \in {PNG, JPG}, given \in BOOLEAN :
        CreateVersionedFilename(asset_name, version, file_extension, given)

SpecFilename == InitFilename /\ [][NextFilename]_vars

----------------------------------------------------------------------------
(* The frontend's search for the generated image in the final response     *)
(* (frontend.py, step 5): three regular expressions, then the working      *)
(* directory.  The searches are computed on the characters of the text.    *)

JPEG == <<"j", "p", "e", "g">>
ImageExtensions == {PNG, JPG, JPEG}

\* [a-zA-Z0-9_\-]
NameChars ==
    {UpperCase[k] : k \in 1..Len(UpperCase)}
    \cup {LowerCase[k] : k \in 1..Len(LowerCase)}
    \cup {Digits[k] : k \in 1..Len(Digits)}
    \cup {"_", "-"}

\* s ends with '.' and an image extension, after at least one character
EndsWithImageExtension(s) ==
    \E e \in ImageExtensions :
        /\ Len(s) >= Len(e) + 2
        /\ SubSeq(s, Len(s) - Len(e), Len(s)) = <<".">> \o e

\* str.strip for blanks
RECURSIVE Strip(_)
Strip(s) ==
    IF s = << >> THEN s
    ELSE IF s[1] = " " THEN Strip(SubSeq(s, 2, Len(s)))
    ELSE IF s[Len(s)] = " " THEN Strip(SubSeq(s, 1, Len(s) - 1))
    ELSE s

STARS == <<"*", "*">>

\* \*\*([^\*]+\.(png|jpg|jpeg))\*\* matches at position i of text and
\* its group ends at position j
BoldMatchAt(text, i, j) ==
    /\ OccursAt(text, STARS, i)
    /\ j >= i + 2
    /\ OccursAt(text, STARS, j + 1)
    /\ \A k \in (i + 2)..j : text[k] # "*"
    /\ EndsWithImageExtension(SubSeq(text, i + 2, j))

\* group 1 of the leftmost match of the pattern that starts at one of the
\* positions in starts; None without a match
BoldGroup(text, starts) ==
    LET hits == {i \in starts : \E j \in 1..Len(text) : BoldMatchAt(text, i, j)}
    IN IF hits = {} THEN None
       ELSE LET i == CHOOSE x \in hits : \A y \in hits : x <= y
                j == CHOOSE x \in 1..Len(text) : BoldMatchAt(text, i, x)
            IN SubSeq(text, i + 2, j)

\* Method 1: the first **name.ext** of the response, stripped
Method1(text) == Strip(BoldGroup(text, 1..Len(text)))

SAVED_AS == <<"s", "a", "v", "e", "d", " ", "a", "s", ":">>

\* the positions where \*\* can start after 'saved as:' (any case) and
\* any number of blanks
AfterSavedAs(text) ==
    LET lowered == Lower(text)
        heads == {k \in 1..Len(text) : OccursAt(lowered, SAVED_AS, k)}
    IN {i \in 1..Len(text) :
           \E k \in heads :
               /\ k + Len(SAVED_AS) <= i
               /\ \A b \in (k + Len(SAVED_AS))..(i - 1) : text[b] = " "}

\* Method 2: the first **name.ext** that follows 'Saved as:', stripped
Method2(text) == Strip(BoldGroup(text, AfterSavedAs(text)))

\* ([a-zA-Z0-9_\-]+\.(png|jpg|jpeg)) matches text[i..j]
PlainMatchAt(text, i, j) ==
    \E k \in i..j :
        /\ \A c \in i..k : text[c] \in NameChars
        /\ k + 1 <= Len(text)
        /\ text[k + 1] = "."
        /\ \E e \in ImageExtensions :
              /\ j = k + 1 + Len(e)
              /\ OccursAt(text, e, k + 2)

\* Method 3: the leftmost image filename anywhere in the response
Method3(text) ==
    LET hits == {i \in 1..Len(text) :
                    \E j \in 1..Len(text) : PlainMatchAt(text, i, j)}
    IN IF hits = {} THEN None
       ELSE LET i == CHOOSE x \in hits : \A y \in hits : x <= y
                j == CHOOSE x \in 1..Len(text) : PlainMatchAt(text, i, x)
            IN SubSeq(text, i, j)

----------------------------------------------------------------------------
(* The Streamlit script: uploads, categories, gallery, chat (frontend.py) *)

KIT_V1_PNG == create_versioned_filename(KIT, 1, PNG)

\* the files a user picks in the uploader: a photo, and a rendering of an
\* earlier session
FrontendUploads == {ROOM_JPG, KIT_V1_PNG}

Categories == {"current_room", "inspiration", "reference"}

Elements(seq) == {seq[k] : k \in 1..Len(seq)}

Without(seq, x) == SelectSeq(seq, LAMBDA y : y # x)

\* open(path, "wb").write(...): the file exists and is the newest
WriteFile(u, name, who) ==
    [u EXCEPT !.mtime = Append(Without(@, name), name),
              !.old = @ \ {name},
              !.written_by = Put(@, name, who)]

\* os.remove(path)
RemoveFile(u, name) ==
    [u EXCEPT !.mtime = Without(@, name),
              !.old = @ \ {name},
              !.written_by = [x \in (DOMAIN @) \ {name} |-> @[x]]]

\* the loop over uploaded_files: a file whose name is not in uploaded_images
\* is written to the working directory and registered as current_room
RECURSIVE UploadHandling(_, _)
UploadHandling(fs, uploaded_files) ==
    IF uploaded_files = << >> THEN fs
    ELSE LET name == Head(uploaded_files)
         IN IF name \in Elements(fs.ui.uploaded_images)
            THEN UploadHandling(fs, Tail(uploaded_files))
            ELSE UploadHandling(
                     [ui |-> WriteFile(
                                 [fs.ui EXCEPT
                                     !.uploaded_images = Append(@, name),
                                     !.image_categories =
                                         Put(@, name, "current_room")],
                                 name, "upload"),
                      disk |-> fs.disk \cup {name}],
                     Tail(uploaded_files))

\* one select box per uploaded image, keyed by the image's name: a box that
\* has a value keeps it, a new box starts at the image's category, the box
\* of an image that is no longer listed is dropped; the category is then
\* set to the box's value
CategorizeImages(u) ==
    LET names == Elements(u.uploaded_images)
        boxes == [n \in names |->
                     IF n \in DOMAIN u.selectbox THEN u.selectbox[n]
                     ELSE Get(u.image_categories, n, "current_room")]
    IN [u EXCEPT
           !.selectbox = boxes,
           !.image_categories =
               [n \in (DOMAIN @) \cup names |->
                   IF n \in names THEN boxes[n] ELSE @[n]]]

\* the script from its top to the end of the upload tab
UploadTab(fs) ==
    LET up == UploadHandling(fs, fs.ui.uploader)
    IN [up EXCEPT !.ui = CategorizeImages(@)]

\* the Remove button's body
RemoveImage(fs, name) ==
    [ui |-> RemoveFile(
                [fs.ui EXCEPT
                    !.uploaded_images = Without(@, name),
                    !.image_categories =
                        [x \in (DOMAIN @) \ {name} |-> @[x]]],
                name),
     disk |-> fs.disk \ {name}]

\* the Clear All button's body
RECURSIVE RemoveFiles(_, _)
RemoveFiles(fs, images) ==
    IF images = << >> THEN fs
    ELSE RemoveFiles([ui |-> RemoveFile(fs.ui, Head(images)),
                      disk |-> fs.disk \ {Head(images)}],
                     Tail(images))

ClearAllImages(fs) ==
    LET gone == RemoveFiles(fs, fs.ui.uploaded_images)
    IN [gone EXCEPT !.ui.uploaded_images = << >>,
                    !.ui.image_categories = EmptyDict]

\* the tools of one agent run write their renderings
RECURSIVE ToolsWrite(_, _)
ToolsWrite(fs, wrote) ==
    IF wrote = {} THEN fs
    ELSE LET name == CHOOSE x \in wrote : TRUE
         IN ToolsWrite([ui |-> WriteFile(fs.ui, name, "tool"),
                        disk |-> fs.disk \cup {name}],
                       wrote \ {name})

TEXT_SAVED_AS_KIT == <<"S", "a", "v", "e", "d", " ", "a", "s", ":", " ", "*", "*", "k", "i", "t", "_", "v", "1", ".", "p", "n", "g", "*", "*">>
TEXT_BOLD_ROOM == <<"I", " ", "u", "s", "e", "d", " ", "*", "*", "r", "o", "o", "m", ".", "j", "p", "g", "*", "*">>
TEXT_PLAIN_ROOM == <<"s", "e", "e", " ", "r", "o", "o", "m", ".", "j", "p", "g">>
TEXT_TWO_NAMES == <<"*", "*", "a", ".", "p", "n", "g", "*", "*", " ", "s", "a", "v", "e", "d", " ", "a", "s", ":", " ", "*", "*", "k", "i", "t", "_", "v", "1", ".", "p", "n", "g", "*", "*">>

\* the final responses of an agent run
FinalResponses ==
    {None, RESPONSE_TEXT, TEXT_SAVED_AS_KIT, TEXT_BOLD_ROOM, TEXT_PLAIN_ROOM,
     TEXT_TWO_NAMES}

\* the three searches, for each final response
Searches ==
    [text \in FinalResponses |->
        [method1 |-> Method1(text),
         method2 |-> Method2(text),
         method3 |-> Method3(text)]]

\* Methods 1 to 4: the method that finds the image, and the image
DetectGeneratedImage(fs, final_response) ==
    LET m1 == Searches[final_response].method1
        m2 == Searches[final_response].method2
        m3 == Searches[final_response].method3
        image_files == fs.ui.mtime
    IN IF m1 # None /\ m1 \in fs.disk
       THEN [by |-> "method1", found_image |-> m1]
       ELSE IF m2 # None /\ m2 \in fs.disk
       THEN [by |-> "method2", found_image |-> m2]
       ELSE IF m3 # None /\ m3 \in fs.disk
       THEN [by |-> "method3", found_image |-> m3]
       ELSE IF image_files # << >>
               /\ image_files[Len(image_files)] \notin fs.ui.old
       THEN [by |-> "method4",
             found_image |-> image_files[Len(image_files)]]
       ELSE [by |-> "none", found_image |-> None]

\* step 5 of the chat handler
DetectAndDisplay(fs, error_occurred, final_response) ==
    LET found == IF ~error_occurred /\ final_response # None
                 THEN DetectGeneratedImage(fs, final_response)
                 ELSE [by |-> "none", found_image |-> None]
    IN IF found.found_image # None
       THEN [fs EXCEPT
                !.ui.last_generated_image = found.found_image,
                !.ui.last_generated_filename = found.found_image,
                !.ui.attach_last_rendering = TRUE,
                !.ui.attach_uploaded_images = FALSE,
                !.ui.found_by = found.by]
       ELSE [fs EXCEPT !.ui.found_by = "none"]

\* what the retry loop leaves behind: error_occurred, the final response,
\* and the files the tools wrote while the agent ran
ChatOutcomes ==
    {o \in [error_occurred : BOOLEAN,
            final_response : FinalResponses,
            wrote : SUBSET {KIT_V1_PNG}] :
        o.error_occurred => o.final_response = None}

\* the uploader's contents
UploaderContents ==
    {<< >>, <<ROOM_JPG>>, <<KIT_V1_PNG>>, <<ROOM_JPG, KIT_V1_PNG>>}

Frame(fs) ==
    /\ ui' = fs.ui
    /\ disk' = fs.disk
    /\ UNCHANGED <<state, result, call, req, report, retry, pipeline>>

InitFrontend ==
    /\ state = InitState
    /\ disk = {}
    /\ result = NoResult
    /\ call = NoCall
    /\ req = [p \in Procs |-> IdleReq]
    /\ report = NoReport
    /\ retry = IdleRetry
    /\ pipeline = IdlePipeline
    /\ ui = InitUI

\* the user adds files to the uploader or takes files out of it
ChooseFiles(files) ==
    /\ files # ui.uploader
    /\ LET picked == Elements(files) \ Elements(ui.uploader)
           before == [ui |-> [ui EXCEPT !.uploader = files,
                                        !.removed = @ \ picked],
                      disk |-> disk]
       IN Frame(UploadTab(before))

\* the user picks another category in an image's select box
SelectCategory(img_name, category) ==
    /\ img_name \in Elements(ui.uploaded_images)
    /\ Get(ui.selectbox, img_name, None) # category
    /\ LET before == [ui |-> [ui EXCEPT
                                 !.selectbox = Put(@, img_name, category)],
                      disk |-> disk]
       IN Frame(UploadTab(before))

\* the user presses an image's Remove button: the button's body ends with
\* st.rerun(), which runs the script again from its top
Remove(img_name) ==
    /\ img_name \in Elements(ui.uploaded_images)
    /\ Get(ui.image_categories, img_name, None) \in Categories
    /\ img_name \in disk
    /\ LET shown == UploadTab([ui |-> ui, disk |-> disk])
           gone == RemoveImage(shown, img_name)
           marked == [gone EXCEPT !.ui.removed = @ \cup {img_name}]
       IN Frame(UploadTab(marked))

\* the user presses Clear All
ClearAll ==
    /\ ui.uploaded_images # << >>
    /\ LET shown == UploadTab([ui |-> ui, disk |-> disk])
           gone == ClearAllImages(shown)
           marked == [gone EXCEPT
                         !.ui.removed =
                             @ \cup Elements(shown.ui.uploaded_images)]
       IN Frame(UploadTab(marked))

\* the user sends a message: the agent runs, then the image is looked for
Chat(outcome) ==
    /\ outcome \in ChatOutcomes
    /\ LET shown == UploadTab([ui |-> ui, disk |-> disk])
           ran == ToolsWrite([shown EXCEPT
                                 !.ui.run_wrote = outcome.wrote,
                                 !.ui.removed = @ \ outcome.wrote],
                             outcome.wrote)
       IN Frame(DetectAndDisplay(ran, outcome.error_occurred,
                                 outcome.final_response))

\* five minutes pass without a write
FiveMinutesPass ==
    /\ ui.old # disk
    /\ ui' = [ui EXCEPT !.old = disk]
    /\ UNCHANGED <<state, disk, result, call, req, report, retry, pipeline>>

ChooseFilesCall == \E files \in UploaderContents : ChooseFiles(files)

SelectCategoryCall ==
    \E img_name \in FrontendUploads, category \in Categories :
        SelectCategory(img_name, category)

RemoveCall == \E img_name \in FrontendUploads : Remove(img_name)

ChatCall == \E outcome \in ChatOutcomes : Chat(outcome)

NextFrontend ==
    \/ ChooseFilesCall
    \/ SelectCategoryCall
    \/ RemoveCall
    \/ ClearAll
    \/ ChatCall
    \/ FiveMinutesPass

SpecFrontend == InitFrontend /\ [][NextFrontend]_vars

----------------------------------------------------------------------------
(* Properties *)

Last(h) == h[Len(h)]

\* every (asset, position) of the store that holds a history entry
Entries(st) ==
    UNION {{<<a, i>> : i \in 1..Len(st.history[a])} : a \in DOMAIN st.history}

Committed == result.kind \in {"generated", "edited"}

\* C1: with calls run one at a time, the versions in every asset's history
\* are 1, 2, ..., n in insertion order, whatever save_artifact returns.
C1_HistoryVersionsAreOneToN ==
    \A a \in DOMAIN state.history :
        \A i \in 1..Len(state.history[a]) : state.history[a][i].version = i

\* C2: for every asset with a history, the current version and filename are
\* those of the last history entry, and no entry has a higher version.
C2_CurrentIsLastAndHighest ==
    \A a \in DOMAIN state.history :
        LET h == state.history[a]
        IN h # << >> =>
            /\ a \in DOMAIN state.asset_versions
            /\ a \in DOMAIN state.asset_filenames
            /\ state.asset_versions[a] = Last(h).version
            /\ state.asset_filenames[a] = Last(h).filename
            /\ \A i \in 1..Len(h) : h[i].version <= Last(h).version

\* C3: every recorded entry's filename is the versioned filename of its
\* asset and its recorded version.
C3_FilenameEmbedsRecordedVersion ==
    \A e \in Entries(state) :
        LET entry == state.history[e[1]][e[2]]
        IN entry.filename = create_versioned_filename(e[1], entry.version, PNG)

\* C4: two overlapping requests on an asset that had no version, both of
\* which commit, record versions 1 and 2, one each.
C4_ConcurrentFirstCommitsAreOneAndTwo ==
    \A p \in Procs :
        LET q == Other(p)
        IN (/\ req[p].pc = "done" /\ req[q].pc = "done"
            /\ req[p].overlapped /\ req[q].overlapped
            /\ req[p].asset = req[q].asset
            /\ req[p].fresh /\ req[q].fresh
            /\ req[p].committed # 0 /\ req[q].committed # 0)
           => {req[p].committed, req[q].committed} = {1, 2}

\* C5: no two entries of the store, in any assets and positions, carry the
\* same filename.
C5_FilenamesUniqueAcrossStore ==
    \A e1, e2 \in Entries(state) :
        e1 # e2 =>
            state.history[e1[1]][e1[2]].filename
                # state.history[e2[1]][e2[2]].filename

\* C6: a call whose image-model request raises or ends without an image
\* leaves the session state (versions, filenames, histories) as it was.
C6_FailedModelCallCommitsNothing ==
    [][call'.model \in {"raises", "no_image"} => state' = state]_vars

C6_Witness ==
    /\ call.model \in {"raises", "no_image"}
    /\ result.kind \in {"error", "no_rendering", "no_edited_rendering"}
    /\ TotalCommits(state) > 0

C8_CommitsWithoutArtifactService ==
    [][(call'.model = "image" /\ call'.svc \in {"absent", "raises"})
       => /\ result'.kind \in {"generated", "edited"}
          /\ LET a == result'.asset
                 next == get_next_version_number(state, a)
             IN /\ Len(History(state', a)) = Len(History(state, a)) + 1
                /\ Last(History(state', a)).version = next
                /\ SubSeq(History(state', a), 1, Len(History(state, a)))
                       = History(state, a)
                /\ state'.asset_versions[a] = next
                /\ result'.version = next]_vars

C8_Witness ==
    /\ call.model = "image"
    /\ call.svc \in {"absent", "raises"}
    /\ Committed
    /\ Len(History(state, result.asset)) >= 2

\* C9: the store only ever records, for an asset, a version equal to the
\* asset's current version + 1 (any other commit is not recorded).
C9_OnlyNextVersionIsRecorded ==
    [][\A a \in DOMAIN state'.history :
          History(state', a) # History(state, a)
              => Last(History(state', a)).version
                     = get_next_version_number(state, a)]_vars

\* C10: after a commit the asset's current (version, filename) is the entry
\* just appended and the next version number is that version + 1; an asset
\* without history has next version number 1.
C10_LatestAndNextAfterCommit ==
    /\ \A a \in DOMAIN state.history :
          LET h == state.history[a]
          IN h # << >> =>
              /\ a \in DOMAIN state.asset_versions
              /\ a \in DOMAIN state.asset_filenames
              /\ <<state.asset_versions[a], state.asset_filenames[a]>>
                     = <<Last(h).version, Last(h).filename>>
              /\ get_next_version_number(state, a) = Last(h).version + 1
    /\ \A a \in AssetNames \cup {RENOVATION_RENDERING} :
          History(state, a) = << >> => get_next_version_number(state, a) = 1

C10_Witness ==
    /\ Committed
    /\ Len(History(state, result.asset)) >= 2
    /\ Last(History(state, result.asset)).version
           # Len(History(state, result.asset))
    /\ \E a \in AssetNames : History(state, a) = << >>

\* C11: within a session the history of an asset only grows by appending:
\* every asset that has a history keeps it, and its old entries stay, in
\* the same order, as the first entries of the new history
C11_HistoryIsAppendOnly ==
    [][\A a \in DOMAIN state.history :
          /\ a \in DOMAIN state'.history
          /\ Len(state'.history[a]) >= Len(state.history[a])
          /\ SubSeq(state'.history[a], 1, Len(state.history[a]))
                = state.history[a]]_vars

\* a second commit on an asset has extended a history that already existed
C11_Witness ==
    \E a \in DOMAIN state.history :
        /\ Len(state.history[a]) >= 2
        /\ result.kind \in {"generated", "edited"}
        /\ result.asset = a

\* C12: get_next_version_number returns the current version plus one and
\* leaves the session state as it was; called again right after, for the
\* same asset, it returns the same value, and it creates no asset entry
C12_NextVersionReadsOnly ==
    [][call'.op = "get_next_version_number" =>
          /\ state' = state
          /\ report'.value
                = Get(state.asset_versions, report'.asset, 0) + 1
          /\ DOMAIN state'.asset_versions = DOMAIN state.asset_versions
          /\ (call.op = "get_next_version_number"
               /\ report.asset = report'.asset
               => report'.value = report.value)]_vars

\* the next version of an asset that has no entry was asked for in a
\* session that has committed versions of another asset
C12_Witness ==
    /\ call.op = "get_next_version_number"
    /\ report.asset \notin DOMAIN state.asset_versions
    /\ report.value = 1
    /\ state.asset_versions # EmptyDict

AllOverloaded(errors) == \A i \in 1..Len(errors) : IsOverloaded(errors[i])

\* C13: when every attempt of the agent run fails with an overload error
\* the run is attempted exactly MAX_RETRIES times, with waits of
\* RETRY_DELAY * (attempt + 1) seconds between the attempts (5, then 10),
\* and the loop ends with error_occurred true and the overload error
\* shown; a run that returns ends the loop with error_occurred false; the
\* run is never attempted more than MAX_RETRIES times
C13_RetryLoop ==
    /\ retry.runs <= MAX_RETRIES
    /\ retry.pc = "loop" => retry.attempt < MAX_RETRIES
    /\ (retry.pc = "done" /\ Len(retry.errors) = retry.runs
         /\ AllOverloaded(retry.errors))
        => /\ retry.runs = 3
           /\ retry.waits = <<5, 10>>
           /\ retry.error_occurred
           /\ retry.shown = "overloaded"
    /\ (retry.pc = "done" /\ Len(retry.errors) < retry.runs)
        => /\ ~retry.error_occurred
           /\ retry.shown = "none"

\* three overload errors in a row have ended the loop
C13_Witness ==
    /\ retry.pc = "done"
    /\ retry.runs = MAX_RETRIES
    /\ Len(retry.errors) = MAX_RETRIES
    /\ AllOverloaded(retry.errors)
    /\ retry.error_occurred

\* the text messages a handler returns
MessageKinds ==
    {"error", "no_rendering", "generated", "could_not_find",
     "no_edited_rendering", "edited"}

C14_FrontendShowsError ==
    (retry.pc = "done" /\ Len(retry.errors) = retry.runs)
    => /\ retry.error_occurred
       /\ retry.shown \in {"overloaded", "error"}

IsStart(e) == e.ev = "start"

\* the agents started in the current run of the pipeline, in order
StartedAgents == [i \in 1..Len(SelectSeq(pipeline.log, IsStart)) |->
                      SelectSeq(pipeline.log, IsStart)[i].agent]

\* C15: the planning pipeline runs assessment (VisualAssessor), design
\* specification (DesignPlanner) and coordination (ProjectCoordinator) in
\* this order: the agents started so far are the first ones of this list,
\* so none is skipped or started twice; a stage starts only right after
\* the stage before it has completed; a stage that fails is not retried
\* and nothing runs after it; the pipeline completes only after all three
C15_StagesRunInFixedOrder ==
    LET order == <<"VisualAssessor", "DesignPlanner", "ProjectCoordinator">>
        log == pipeline.log
    IN
    /\ Len(StartedAgents) <= 3
    /\ \A i \in 1..Len(StartedAgents) : StartedAgents[i] = order[i]
    /\ \A k \in 2..Len(log) :
          log[k].ev = "start"
          => /\ log[k - 1].ev = "end"
             /\ \E i \in 1..2 : /\ log[k - 1].agent = order[i]
                                 /\ log[k].agent = order[i + 1]
    /\ \A k \in 1..Len(log) : log[k].ev = "raised" => k = Len(log)
    /\ pipeline.pc = "completed"
        => /\ Len(StartedAgents) = 3
           /\ log[Len(log)] \in
                 [ev : {"end"}, agent : {"ProjectCoordinator"},
                  outcome : StageOutcomes]

\* the pipeline has run all three stages to the end
C15_Witness ==
    /\ pipeline.pc = "completed"
    /\ Len(pipeline.log) = 6

\* C18: a generate or edit call that names its reference image as 'latest'
\* uses the most recently registered reference image of the session:
\* right after save_uploaded_image_as_artifact has registered an image,
\* get_latest_reference_image_filename returns its name and a call naming
\* 'latest' looks for that file; whenever an image has been registered,
\* the file a 'latest' call looks for is a registered one
C18_LatestIsMostRecentlyRegistered ==
    [][/\ call'.op = "save_uploaded_image_as_artifact"
          => get_latest_reference_image_filename(state')
               = report'.artifact_name
       /\ (call'.op \in {"generate", "edit"} /\ call'.named = LATEST)
          => /\ call.op = "save_uploaded_image_as_artifact"
                => call'.reference = report.artifact_name
             /\ state.uploaded_images # EmptyDict
                => call'.reference \in DOMAIN state.uploaded_images]_vars

\* the assets with at least one committed version
CommittedAssets == {a \in DOMAIN state.history : Len(state.history[a]) >= 1}

\* C19, the listing alone: list_renovation_renderings reports exactly the
\* assets that have a committed version, each with the number of its
\* history entries, its current version and its current filename, and
\* reports that no renderings exist when there is none
C19_ListingShowsTheStore ==
    call.op = "list_renovation_renderings"
    => IF CommittedAssets = {}
       THEN report.kind = "no_renderings"
       ELSE /\ report.kind = "renderings"
            /\ DOMAIN report.lines = CommittedAssets
            /\ \A a \in CommittedAssets :
                  /\ report.lines[a].total_versions = Len(state.history[a])
                  /\ report.lines[a].current_version
                        = state.asset_versions[a]
                  /\ report.lines[a].latest_filename
                        = state.asset_filenames[a]

\* C19: list_renovation_renderings reports the store as above, and after
\* any sequence of successful operations the count it reports for an asset
\* equals the latest version it reports for it
C19_ListedCountEqualsLatestVersion ==
    /\ C19_ListingShowsTheStore
    /\ (call.op = "list_renovation_renderings"
         /\ report.kind = "renderings")
        => \A a \in DOMAIN report.lines :
              report.lines[a].total_versions
                = report.lines[a].current_version

\* C20: after save_uploaded_image_as_artifact has returned successfully
\* for an artifact name, list_reference_images lists that name; it answers
\* that no reference images have been uploaded only when none has been
\* registered in the session
C20_RegisteredImagesAreListed ==
    call.op = "list_reference_images"
    => IF state.uploaded_images = EmptyDict
       THEN report.kind = "no_reference_images"
       ELSE /\ report.kind = "reference_images"
            /\ DOMAIN state.uploaded_images \subseteq DOMAIN report.lines

\* int(s) for a string of decimal digits
RECURSIVE StrToInt(_)
StrToInt(s) ==
    IF s = << >> THEN 0
    ELSE StrToInt(SubSeq(s, 1, Len(s) - 1)) * 10
         + (CHOOSE d \in 0..9 : Digits[d + 1] = s[Len(s)])

IsDecimal(s) ==
    /\ Len(s) >= 1
    /\ \A i \in 1..Len(s) : \E d \in 1..10 : Digits[d] = s[i]
    /\ Len(s) > 1 => s[1] # "0"

\* f reads as: the asset name, '_v', the version in decimal, '.', the
\* extension
ReadsAsVersionedFilename(f, asset_name, version, extension) ==
    LET n == Len(f)
        a == Len(asset_name)
        e == Len(extension)
        number == SubSeq(f, a + 3, n - e - 1)
    IN /\ n >= a + 2 + 1 + 1 + e
       /\ SubSeq(f, 1, a) = asset_name
       /\ f[a + 1] = "_"
       /\ f[a + 2] = "v"
       /\ IsDecimal(number)
       /\ StrToInt(number) = version
       /\ f[n - e] = "."
       /\ SubSeq(f, n - e + 1, n) = extension

\* C22: create_versioned_filename returns asset_name + '_v' + version +
\* '.' + extension, with extension 'png' when it is left out; the same
\* inputs give the same output whatever the session holds, and the call
\* leaves the session state and the working directory as they were
C22_FilenameIsPure ==
    [][call'.op = "create_versioned_filename" =>
          /\ ReadsAsVersionedFilename(
                 report'.value, report'.asset_name, report'.version,
                 IF report'.file_extension = None
                 THEN <<"p", "n", "g">> ELSE report'.file_extension)
          /\ state' = state
          /\ disk' = disk
          /\ (/\ report.kind = "filename"
              /\ report.asset_name = report'.asset_name
              /\ report.version = report'.version
              /\ report.file_extension = report'.file_extension)
             => report'.value = report.value]_vars

\* a filename with a two-digit version and the default extension was made
\* in a session that holds a rendering
C22_Witness ==
    /\ call.op = "create_versioned_filename"
    /\ report.version >= 10
    /\ report.file_extension = None
    /\ state # InitState

STR_429 == <<"4", "2", "9">>

\* the two kinds of failure C23 is about
IsOverloadedOrRateLimit(error_str) ==
    \/ IsOverloaded(error_str)
    \/ Contains(error_str, STR_429)

\* C23: an agent run that fails with a 503 / overloaded error or with a
\* 429 rate-limit error on an attempt that is not the last one is followed
\* by another attempt: the loop ends on such a failure, with an error
\* shown, only when it was the failure of the last attempt
C23_RateLimitIsRetried ==
    (/\ retry.pc = "done"
     /\ Len(retry.errors) = retry.runs
     /\ retry.runs >= 1
     /\ IsOverloadedOrRateLimit(retry.errors[Len(retry.errors)]))
    => retry.runs = MAX_RETRIES

\* the part of filename before its first '_v'
IsPartBeforeFirstSep(part, filename) ==
    \E i \in 1..Len(filename) :
        /\ OccursAt(filename, SEP_V, i)
        /\ \A j \in 1..(i - 1) : ~OccursAt(filename, SEP_V, j)
        /\ part = SubSeq(filename, 1, i - 1)

\* C24: a successful edit_renovation_rendering gives the new version to
\* the asset_name input if there is one; otherwise to the session's
\* current_asset_name if there is one; otherwise to the part of
\* artifact_filename before its first '_v' if it has one; otherwise to
\* 'renovation_rendering'.  After a successful generate or edit
\* current_asset_name is the asset of that call, and no other call
\* changes it
C24_EditChoosesAssetInOrder ==
    [][/\ (call'.op = "edit" /\ result'.kind = "edited")
          => /\ IF call'.asset_name # None
                THEN result'.asset = call'.asset_name
                ELSE IF state.current_asset_name # None
                THEN result'.asset = state.current_asset_name
                ELSE IF \E i \in 1..Len(call'.artifact_filename) :
                           OccursAt(call'.artifact_filename, SEP_V, i)
                THEN IsPartBeforeFirstSep(result'.asset,
                                          call'.artifact_filename)
                ELSE result'.asset
                       = <<"r", "e", "n", "o", "v", "a", "t", "i", "o", "n",
                           "_", "r", "e", "n", "d", "e", "r", "i", "n", "g">>
             /\ Last(state'.history[result'.asset]).filename
                  = result'.filename
       /\ state'.current_asset_name
            = IF result'.kind \in {"generated", "edited"}
              THEN result'.asset ELSE state.current_asset_name]_vars

\* an edit without asset_name input has followed the session's current
\* asset although the edited file carries another name
C24_Witness ==
    /\ call.op = "edit"
    /\ result.kind = "edited"
    /\ call.asset_name = None
    /\ result.asset = KIT
    /\ Contains(call.artifact_filename, SEP_V)

\* C25: for every asset name a and version v, an edit of the file
\* create_versioned_filename(a, v), made with no asset_name input in a
\* session without current_asset_name, records its new version under a
C25_EditOfVersionedFileKeepsAsset ==
    [][\A a \in AssetNames, v \in 1..MaxVersion :
          (/\ call'.op = "edit"
           /\ result'.kind = "edited"
           /\ call'.asset_name = None
           /\ state.current_asset_name = None
           /\ call'.artifact_filename = create_versioned_filename(a, v, PNG))
          => /\ result'.asset = a
             /\ a \in DOMAIN state'.history]_vars

\* C26: a successful edit_renovation_rendering never writes its output
\* under the filename it was asked to edit
C26_EditNeverOverwritesItsSource ==
    (call.op = "edit" /\ result.kind = "edited")
    => result.filename # call.artifact_filename

\* C27: every (version, filename) entry of the store names an image file
\* that was written to the working directory, and a call that returned a
\* success message wrote its file: a failed disk write commits nothing
C27_CommittedFilesAreOnDisk ==
    /\ \A a \in DOMAIN state.history :
          \A i \in 1..Len(state.history[a]) :
              state.history[a][i].filename \in disk
    /\ result.kind \in {"generated", "edited"} => result.filename \in disk

\* C28: whenever no generate or edit call is in progress and at least one
\* version has been committed, last_generated_rendering is the current
\* filename of the asset named by current_asset_name; calls that failed
\* or were abandoned part-way have left this relation intact
C28_LastRenderingIsCurrentFile ==
    (/\ \A p \in Procs : req[p].pc # "saving"
     /\ TotalCommits(state) >= 1)
    => /\ state.current_asset_name \in DOMAIN state.asset_filenames
       /\ state.last_generated_rendering
            = state.asset_filenames[state.current_asset_name]

\* C30: an image the user removed with Remove or Clear All, and did not
\* upload again, is absent from uploaded_images and image_categories and has
\* no file in the working directory at the end of every script run, also
\* while the uploader still holds the file
C30_RemovedImageStaysRemoved ==
    \A name \in ui.removed :
        /\ name \notin Elements(ui.uploaded_images)
        /\ name \notin DOMAIN ui.image_categories
        /\ name \notin disk

\* C29: when the detection of an agent run sets last_generated_image, the
\* image is a file a tool wrote during that run, whichever of the four
\* methods found it
C29_LastGeneratedImageIsThisRunsOutput ==
    ui.found_by # "none" => ui.last_generated_image \in ui.run_wrote

\* C21: no step changes the category or the stored file of an uploaded
\* image that stays registered, and no tool writes a versioned file under
\* its name
C21_UploadedImageIsReadOnly ==
    [][\A name \in Elements(ui.uploaded_images) :
          name \in Elements(ui'.uploaded_images)
          => /\ Get(ui'.image_categories, name, None)
                  = Get(ui.image_categories, name, None)
             /\ Get(ui'.written_by, name, None)
                  = Get(ui.written_by, name, None)]_vars

====
